---- MODULE Spec2Model ----
(***************************************************************************)
(* A model of src/backup.ts: the change-aware directory backup.            *)
(*                                                                         *)
(* Text (file names, file contents, the log file) is modelled as a         *)
(* sequence of tokens.  A token is a record [k, n, s]: its kind, a number  *)
(* (a clock reading, for the timestamp tokens) and a sequence of strings.  *)
(* File names and file contents are sequences of one-character strings,    *)
(* so that join('') is concatenation.  A SHA-256 digest is the token       *)
(* Sha(s) of the string s it was computed from: equal inputs give equal    *)
(* digests and different inputs different ones (collision freedom).        *)
(***************************************************************************)
EXTENDS Naturals, Sequences, FiniteSets

\* ------------------------------------------------------------------ bounds
MaxFiles == 2
MaxRuns == 2
MaxFaultyRuns == 1
MaxClock == 1
MaxEdits == 1
MaxLogLines == 3
MaxTorn == 1

Procs == {1, 2}

\* ------------------------------------------------------------------ tokens
Tok(k, n, s) == [k |-> k, n |-> n, s |-> s]
NL == Tok("nl", 0, <<>>)
SP == Tok("sp", 0, <<>>)
HASHMARK == Tok("HASH:", 0, <<>>)
Lit(x) == Tok("lit", 0, <<x>>)
Msg(x) == Tok("msg", 0, <<x>>)
Sha(str) == Tok("sha", 0, str)

\* new Date().toISOString() at clock reading t
toISOString(t) == Tok("iso", t, <<>>)
\* .replace(/[:.]/g, '-') of an ISO timestamp: another text for the same instant
replaceColonsDots(tok) == Tok("dashed", tok.n, <<>>)

\* ------------------------------------------------------------------ strings
FileNames == {<<"a">>, <<"b">>}
Contents == {<<>>, <<"a">>, <<"b">>}

RECURSIVE Join(_)
Join(strs) == IF strs = <<>> THEN <<>> ELSE Head(strs) \o Join(Tail(strs))

Reverse(s) == [i \in 1..Len(s) |-> s[Len(s) + 1 - i]]

IsPrefix(s, t) == Len(s) <= Len(t) /\ SubSeq(t, 1, Len(s)) = s

IsSpace(tok) == tok.k \in {"sp", "nl"}

RECURSIVE TrimLeft(_)
TrimLeft(t) == IF t # <<>> /\ IsSpace(Head(t)) THEN TrimLeft(Tail(t)) ELSE t

Trim(t) == Reverse(TrimLeft(Reverse(TrimLeft(t))))

RECURSIVE Split(_, _)
Split(t, sep) ==
  IF t = <<>> THEN << <<>> >>
  ELSE LET rest == Split(Tail(t), sep)
       IN IF Head(t) = sep THEN << <<>> >> \o rest
          ELSE << <<Head(t)>> \o Head(rest) >> \o Tail(rest)

Includes(t, tok) == \E i \in 1..Len(t) : t[i] = tok

\* Array.prototype.find: the first element that satisfies the test, here
\* line.includes('HASH:'); <<>> stands for undefined (such a line is never empty)
Find(lines) ==
  IF \E i \in 1..Len(lines) : Includes(lines[i], HASHMARK)
  THEN lines[CHOOSE i \in 1..Len(lines) :
               /\ Includes(lines[i], HASHMARK)
               /\ \A j \in 1..(i - 1) : ~Includes(lines[j], HASHMARK)]
  ELSE <<>>

\* ------------------------------------------------------------------ digest
calculateDirectoryChecksum(str) == <<Sha(str)>>

\* ------------------------------------------------------------------ log store
Null == [null |-> TRUE, text |-> <<>>]
Some(t) == [null |-> FALSE, text |-> t]

\* the first HASH-bearing line instead of the last: reverse() forgotten
FirstHashLine(content) == Find(Split(Trim(content), NL))

LastHashLine(content) == Find(Reverse(Split(Trim(content), NL)))

\* an empty string instead of null when there is nothing to return
getLastBackupHashEmptyString(readOk, content) ==
  IF ~readOk THEN Some(<<>>)
  ELSE LET lastHashLine == LastHashLine(content)
       IN IF lastHashLine = <<>> THEN Some(<<>>)
          ELSE Some(Trim(Split(lastHashLine, HASHMARK)[2]))

\* getLastBackupHash once readFile has answered: readOk is whether it resolved
getLastBackupHash(readOk, content) ==
  IF ~readOk THEN Null
  ELSE LET lastHashLine == LastHashLine(content)
       IN IF lastHashLine = <<>> THEN Null
          ELSE Some(Trim(Split(lastHashLine, HASHMARK)[2]))

\* fs.writeFile in the place of fs.appendFile: the content is replaced
writeFile(file, data) == [exists |-> TRUE, text |-> data]

\* fs.appendFile: creates the file when absent, writes after the present content
appendFile(file, data) == [exists |-> TRUE, text |-> file.text \o data]

\* a failed appendFile may have written the first k tokens of its data
PartialCuts(data) == {k \in 0..(Len(data) - 1) : k <= MaxTorn}

\* ------------------------------------------------------------------ directory
HasDistinctNames(d) == \A i, j \in 1..Len(d) : d[i].name = d[j].name => i = j

Dirs ==
  UNION {{d \in [1..n -> [name : FileNames, content : Contents]] : HasDistinctNames(d)}
         : n \in 0..MaxFiles}

\* fs.readdir: the entry names in enumeration order
readdir(d) == [i \in 1..Len(d) |-> d[i].name]

\* fs.readFile(path.join(sourceDir, file), 'utf8')
readFile(d, name) ==
  IF \E i \in 1..Len(d) : d[i].name = name
  THEN d[CHOOSE i \in 1..Len(d) : d[i].name = name].content
  ELSE <<>>

\* ------------------------------------------------------------------ createArchive's texts
\* path.join(destinationDir, `backup-${timestamp}.tar.gz`), separators normalized
BackupFilePath(timestamp) == Tok("path", timestamp.n, <<"dest/backup-", ".tar.gz">>)

SuccessLit == Lit(": SUCCESS: Backup created at ")
FailedLit == Lit(": FAILED: ")

\* the SUCCESS entry written with the file name instead of the normalized path
SuccessLogWithFilename(timestamp, backupFilePath, checksum) ==
  <<timestamp, SuccessLit, Tok("path", backupFilePath.n, <<"backup-", ".tar.gz">>),
    Lit(","), SP, HASHMARK, SP>>
  \o checksum \o <<NL>>

SuccessLog(timestamp, backupFilePath, checksum) ==
  <<timestamp, SuccessLit, backupFilePath, Lit(","), SP, HASHMARK, SP>>
  \o checksum \o <<NL>>

\* a FAILED entry that leaves the error message out
FailedLogNoMessage(iso, message) == <<iso, FailedLit, NL>>

\* the timestamp of FAILED entries taken once, when the module is loaded
FailedLogStampedAtLoad(iso, message) ==
  <<toISOString(0), FailedLit>> \o message \o <<NL>>

FailedLog(iso, message) == <<iso, FailedLit>> \o message \o <<NL>>

\* what promisifiedExec rejects with: the message of a test double, or
\* child_process.exec's `Command failed: ${cmd}\n${stderr}`
ExecErrors(backupFilePath) ==
  { <<Msg("disk full")>>,
    <<Msg("Command failed: tar -czf "), backupFilePath, Lit(" -C src ."), NL,
      Msg("tar: Cannot open"), NL>> }

ReaddirError == <<Msg("ENOENT: scandir src")>>
MkdirError == <<Msg("EACCES: mkdir dest")>>
ReadFileError == <<Msg("EISDIR: read")>>
AppendError == <<Msg("ENOSPC: write backup_log.txt")>>

\* Promise.all: the result of the i-th promise goes to the i-th place
Pending == [done |-> FALSE, val |-> <<>>]
\* results pushed as the reads complete, whatever their place
StoreResultInCompletionOrder(results, i, val) ==
  LET j == CHOOSE j \in 1..Len(results) :
             ~results[j].done /\ \A k \in 1..(j - 1) : results[k].done
  IN [results EXCEPT ![j] = [done |-> TRUE, val |-> val]]

StoreResult(results, i, val) == [results EXCEPT ![i] = [done |-> TRUE, val |-> val]]
Values(results) == [i \in 1..Len(results) |-> results[i].val]
\* Promise.race: settled with the first result
AnyDone(results) == \E i \in 1..Len(results) : results[i].done

AllDone(results) == \A i \in 1..Len(results) : results[i].done

\* createArchive's catch block outside of any try: its exceptions escape
HandlerNoOuterTry(site) ==
  CASE site = "createArchive.try" -> "caCatch"
    [] site = "createArchive.catch" -> "rejected"
    [] site = "runBackup.try" -> "catch"

\* where an exception thrown at a site of the code lands
Handler(site) ==
  CASE site = "createArchive.try" -> "caCatch"
    [] site = "createArchive.catch" -> "catch"
    [] site = "runBackup.try" -> "catch"

\* an absent last hash taken for an equal one
SameChecksumOrAbsent(lastChecksum, newChecksum) ==
  lastChecksum.null \/ lastChecksum.text = newChecksum

\* line 120: lastChecksum === newChecksum
SameChecksum(lastChecksum, newChecksum) ==
  ~lastChecksum.null /\ lastChecksum.text = newChecksum

\* ------------------------------------------------------------------ state
VARIABLES dir, destExists, archives, logFile, clock, faults, edits, nruns, pc, loc, prev

vars == <<dir, destExists, archives, logFile, clock, faults, edits, nruns, pc, loc, prev>>

NoTok == Tok("none", 0, <<>>)

InitLoc ==
  [files |-> <<>>, newChecksum |-> <<>>, lastChecksum |-> Null, branch |-> "NONE",
   timestamp |-> NoTok, backupFilePath |-> NoTok, files2 |-> <<>>,
   fileContents |-> <<>>, checksum |-> <<>>, error |-> <<>>, outcome |-> "none",
   tarFailed |-> FALSE, tarMessage |-> <<>>, thrownAt |-> <<>>, entries |-> <<>>,
   partial |-> FALSE, faulted |-> FALSE, logRead |-> "none", cause |-> <<>>,
   appendFailed |-> FALSE, readOrder |-> <<>>, reported |-> <<>>,
   dir0 |-> <<>>, log0 |-> [exists |-> FALSE, text |-> <<>>], arch0 |-> {},
   dest0 |-> FALSE]

\* what is remembered of the run before the present one
Summary(l) ==
  [valid |-> TRUE, branch |-> l.branch, faulted |-> l.faulted, entries |-> l.entries,
   files |-> l.files, dir0 |-> l.dir0, log0 |-> l.log0, arch0 |-> l.arch0]

NoRun == [Summary(InitLoc) EXCEPT !.valid = FALSE]

Init ==
  /\ dir \in Dirs
  /\ destExists = FALSE
  /\ archives = {}
  /\ logFile = [exists |-> FALSE, text |-> <<>>]
  /\ clock = 0
  /\ faults = 0
  /\ edits = 0
  /\ nruns = 0
  /\ pc = [p \in Procs |-> "idle"]
  /\ loc = [p \in Procs |-> InitLoc]
  /\ prev = NoRun

Finished == {"idle", "done", "rejected"}

\* new Date(): the clock does not go back
Now == {t \in {clock, clock + 1} : t <= MaxClock}

\* an awaited call may be rejected; `faults` counts the runs in which one was
CanFail(p) == loc[p].faulted \/ faults < MaxFaultyRuns
CountFault(p) == faults' = IF loc[p].faulted THEN faults ELSE faults + 1

Set(p, l) == loc' = [loc EXCEPT ![p] = l]
Goto(p, label) == pc' = [pc EXCEPT ![p] = label]

\* an exception with `message` thrown at `site`
Throw(p, l, site, message) ==
  LET target == Handler(site)
  IN /\ Goto(p, target)
     /\ Set(p, [l EXCEPT !.error = message,
                         !.cause = IF l.thrownAt = <<>> THEN message ELSE l.cause,
                         !.thrownAt = Append(l.thrownAt, site),
                         !.outcome = IF target = "rejected" THEN "rejected" ELSE l.outcome])

Fault(l) == [l EXCEPT !.faulted = TRUE]

\* ------------------------------------------------------------------ runBackup
\* a call of runBackup(sourceDir, destinationDir); runs do not overlap
Start(p) ==
  /\ \A q \in Procs : pc[q] \in Finished
  /\ nruns < MaxRuns
  /\ nruns' = nruns + 1
  /\ prev' = IF pc[p] = "idle" THEN prev ELSE Summary(loc[p])
  /\ Goto(p, "readdir")
  /\ Set(p, [InitLoc EXCEPT !.dir0 = dir, !.log0 = logFile, !.arch0 = archives,
                            !.dest0 = destExists])
  /\ UNCHANGED <<dir, destExists, archives, logFile, clock, faults, edits>>

\* lines 111-114: files = await fs.readdir(sourceDir); newChecksum
Readdir(p) ==
  /\ pc[p] = "readdir"
  /\ \/ /\ LET files == readdir(dir)
           IN Set(p, [loc[p] EXCEPT !.files = files,
                        !.newChecksum = calculateDirectoryChecksum(Join(files))])
        /\ Goto(p, "readLog")
        /\ UNCHANGED faults
     \/ /\ CanFail(p)
        /\ CountFault(p)
        /\ Throw(p, Fault(loc[p]), "runBackup.try", ReaddirError)
  /\ UNCHANGED <<dir, destExists, archives, logFile, clock, edits, nruns, prev>>

\* the destination directory ensured before the decision is taken
SkipBackupMkdirFirst(p, l) ==
  /\ Set(p, [l EXCEPT !.branch = "SKIP", !.outcome = "resolved"])
  /\ Goto(p, "done")
  /\ destExists' = TRUE

\* lines 120-123: 'No changes detected since last backup'; return
SkipBackup(p, l) ==
  /\ Set(p, [l EXCEPT !.branch = "SKIP", !.outcome = "resolved"])
  /\ Goto(p, "done")
  /\ UNCHANGED destExists

\* line 120 is false: on to line 126
ProceedToBackup(p, l) ==
  /\ Set(p, [l EXCEPT !.branch = "ARCHIVE"])
  /\ Goto(p, "mkdir")
  /\ UNCHANGED destExists

\* lines 117-123: lastChecksum = await getLastBackupHash(logFilePath); the decision
ReadLog(p) ==
  /\ pc[p] = "readLog"
  /\ \E readOk \in BOOLEAN :
       /\ readOk => logFile.exists
       /\ (~readOk /\ logFile.exists) => CanFail(p)
       /\ IF ~readOk /\ logFile.exists THEN CountFault(p) ELSE UNCHANGED faults
       /\ LET lastChecksum == getLastBackupHash(readOk, logFile.text)
              l == [loc[p] EXCEPT !.lastChecksum = lastChecksum,
                                  !.logRead = IF readOk THEN "ok" ELSE "failed",
                                  !.faulted = ~readOk /\ logFile.exists]
          IN IF SameChecksum(lastChecksum, l.newChecksum)
             THEN SkipBackup(p, l)
             ELSE ProceedToBackup(p, l)
  /\ UNCHANGED <<dir, archives, logFile, clock, edits, nruns, prev>>

\* line 126: await fs.mkdir(destinationDir, { recursive: true })
Mkdir(p) ==
  /\ pc[p] = "mkdir"
  /\ \/ /\ destExists' = TRUE
        /\ Goto(p, "createArchive")
        /\ UNCHANGED <<faults, loc>>
     \/ /\ CanFail(p)
        /\ CountFault(p)
        /\ Throw(p, Fault(loc[p]), "runBackup.try", MkdirError)
        /\ UNCHANGED destExists
  /\ UNCHANGED <<dir, archives, logFile, clock, edits, nruns, prev>>

\* lines 64-78: the timestamp, the file name, and tar is started
CreateArchiveBegin(p) ==
  /\ pc[p] = "createArchive"
  /\ \E t \in Now :
       /\ clock' = t
       /\ LET timestamp == replaceColonsDots(toISOString(t))
          IN Set(p, [loc[p] EXCEPT !.timestamp = timestamp,
                                   !.backupFilePath = BackupFilePath(timestamp)])
  /\ Goto(p, "tar")
  /\ UNCHANGED <<dir, destExists, archives, logFile, faults, edits, nruns, prev>>

\* line 78: await promisifiedExec(tarCommand) answers.  A tar that fails may
\* leave the file it opened (tar creates the archive before it reads the source)
TarDone(p) ==
  /\ pc[p] = "tar"
  /\ \/ /\ archives' = archives \cup {loc[p].backupFilePath}
        /\ Goto(p, "readdir2")
        /\ UNCHANGED <<faults, loc>>
     \/ /\ CanFail(p)
        /\ CountFault(p)
        /\ \E left \in BOOLEAN :
             archives' = IF left THEN archives \cup {loc[p].backupFilePath} ELSE archives
        /\ \E message \in ExecErrors(loc[p].backupFilePath) :
             Throw(p, [Fault(loc[p]) EXCEPT !.tarFailed = TRUE, !.tarMessage = message],
                   "createArchive.try", message)
  /\ UNCHANGED <<dir, destExists, logFile, clock, edits, nruns, prev>>

\* lines 81-83: files = await fs.readdir(sourceDir); every readFile is issued
Readdir2(p) ==
  /\ pc[p] = "readdir2"
  /\ \/ /\ LET files == readdir(dir)
           IN Set(p, [loc[p] EXCEPT !.files2 = files,
                                    !.fileContents = [i \in 1..Len(files) |-> Pending]])
        /\ Goto(p, IF dir = <<>> THEN "appendSuccess" ELSE "reads")
        /\ UNCHANGED faults
     \/ /\ CanFail(p)
        /\ CountFault(p)
        /\ Throw(p, Fault(loc[p]), "createArchive.try", ReaddirError)
  /\ UNCHANGED <<dir, destExists, archives, logFile, clock, edits, nruns, prev>>

\* line 83: one of the pending readFile calls answers, in any order;
\* Promise.all resolves after the last one and rejects with the first failure
ReadFileDone(p) ==
  /\ pc[p] = "reads"
  /\ \E i \in 1..Len(loc[p].fileContents) :
       /\ \A k \in 1..Len(loc[p].readOrder) : loc[p].readOrder[k] # i
       /\ \/ /\ LET results == StoreResult(loc[p].fileContents, i,
                                           readFile(dir, loc[p].files2[i]))
                IN /\ Set(p, [loc[p] EXCEPT !.fileContents = results,
                                            !.readOrder = Append(loc[p].readOrder, i)])
                   /\ Goto(p, IF AllDone(results) THEN "appendSuccess" ELSE "reads")
             /\ UNCHANGED faults
          \/ /\ CanFail(p)
             /\ CountFault(p)
             /\ Throw(p, Fault(loc[p]), "createArchive.try", ReadFileError)
  /\ UNCHANGED <<dir, destExists, archives, logFile, clock, edits, nruns, prev>>

\* lines 84-89: checksum, successLog, await fs.appendFile(logFilePath, successLog)
AppendSuccess(p) ==
  /\ pc[p] = "appendSuccess"
  /\ LET checksum == calculateDirectoryChecksum(Join(Values(loc[p].fileContents)))
         successLog == SuccessLog(loc[p].timestamp, loc[p].backupFilePath, checksum)
         l == [loc[p] EXCEPT !.checksum = checksum]
     IN \/ /\ logFile' = appendFile(logFile, successLog)
           /\ Set(p, [l EXCEPT !.entries = Append(l.entries, successLog),
                               !.outcome = "resolved"])
           /\ Goto(p, "done")
           /\ UNCHANGED faults
        \/ /\ CanFail(p)
           /\ CountFault(p)
           /\ \E k \in PartialCuts(successLog) :
                /\ logFile' = IF k = 0 THEN logFile
                              ELSE appendFile(logFile, SubSeq(successLog, 1, k))
                /\ Throw(p, [Fault(l) EXCEPT !.partial = (k > 0), !.appendFailed = TRUE],
                         "createArchive.try", AppendError)
  /\ UNCHANGED <<dir, destExists, archives, clock, edits, nruns, prev>>

\* lines 90-95: failedLog, await fs.appendFile(logFilePath, failedLog), throw
CreateArchiveCatch(p) ==
  /\ pc[p] = "caCatch"
  /\ \E t \in Now :
       /\ clock' = t
       /\ LET failedLog == FailedLog(toISOString(t), loc[p].error)
          IN \/ /\ logFile' = appendFile(logFile, failedLog)
                /\ Throw(p, [loc[p] EXCEPT !.entries = Append(loc[p].entries, failedLog)],
                         "createArchive.catch",
                         <<Msg("Failed to create backup, error = ")>> \o loc[p].error)
                /\ UNCHANGED faults
             \/ /\ CanFail(p)
                /\ CountFault(p)
                /\ \E k \in PartialCuts(failedLog) :
                     /\ logFile' = IF k = 0 THEN logFile
                                   ELSE appendFile(logFile, SubSeq(failedLog, 1, k))
                     /\ Throw(p, [Fault(loc[p]) EXCEPT !.partial = (k > 0),
                                                        !.appendFailed = TRUE],
                              "createArchive.catch", AppendError)
  /\ UNCHANGED <<dir, destExists, archives, edits, nruns, prev>>

\* runBackup's catch appending a FAILED entry of its own
RunBackupCatchLogs(p) ==
  /\ pc[p] = "catch"
  /\ Set(p, [loc[p] EXCEPT !.outcome = "resolved",
                           !.reported = <<Msg("Error occurred during backup: ")>>
                                        \o loc[p].error])
  /\ Goto(p, "done")
  /\ logFile' = appendFile(logFile, FailedLog(toISOString(clock), loc[p].error))
  /\ UNCHANGED <<dir, destExists, archives, clock, faults, edits, nruns, prev>>

\* lines 130-134: the error is written to the console and to stderr
RunBackupCatch(p) ==
  /\ pc[p] = "catch"
  /\ Set(p, [loc[p] EXCEPT !.outcome = "resolved",
                           !.reported = <<Msg("Error occurred during backup: ")>>
                                        \o loc[p].error])
  /\ Goto(p, "done")
  /\ UNCHANGED <<dir, destExists, archives, logFile, clock, faults, edits, nruns, prev>>

\* ------------------------------------------------------------------ environment
\* between two runs the operator deletes every file of the source directory
DeleteAllFiles ==
  /\ \A q \in Procs : pc[q] \in Finished
  /\ nruns > 0
  /\ edits < MaxEdits
  /\ edits' = edits + 1
  /\ dir # <<>>
  /\ dir' = <<>>
  /\ UNCHANGED <<destExists, archives, logFile, clock, faults, nruns, pc, loc, prev>>

Run(p) ==
  \/ Start(p)
  \/ Readdir(p)
  \/ ReadLog(p)
  \/ Mkdir(p)
  \/ CreateArchiveBegin(p)
  \/ TarDone(p)
  \/ Readdir2(p)
  \/ ReadFileDone(p)
  \/ AppendSuccess(p)
  \/ CreateArchiveCatch(p)
  \/ RunBackupCatch(p)

Next == Run(1) \/ DeleteAllFiles

Spec == Init /\ [][Next]_vars

\* ------------------------------------------------------------------ any log file
\* The log file is a text file of the working directory: a run may find in it
\* whatever earlier runs and other writers left there.
Stamp == toISOString(0)
DashedStamp == replaceColonsDots(Stamp)
HashPool == {<<Sha(<<"a">>)>>, <<Sha(<<"b">>)>>}

WithoutNL(entry) == SubSeq(entry, 1, Len(entry) - 1)

LineShapes ==
  {WithoutNL(SuccessLog(DashedStamp, BackupFilePath(DashedStamp), h)) : h \in HashPool}
  \cup {WithoutNL(FailedLog(Stamp, <<Msg("disk full")>>)),
        WithoutNL(FailedLog(Stamp, <<Msg("no "), HASHMARK, SP, Msg("field")>>)),
        SubSeq(SuccessLog(DashedStamp, BackupFilePath(DashedStamp), <<>>), 1, 6),
        <<Msg("unknown line")>>,
        <<SP>>,
        <<>>}

RECURSIVE JoinLines(_)
JoinLines(lines) ==
  IF lines = <<>> THEN <<>>
  ELSE IF Len(lines) = 1 THEN Head(lines)
  ELSE Head(lines) \o <<NL>> \o JoinLines(Tail(lines))

Logs ==
  UNION {{JoinLines(ls) \o end : ls \in [1..n -> LineShapes], end \in {<<>>, <<NL>>}}
         : n \in 0..MaxLogLines}

\* lines 111-123 read the entry names only: the files are left empty here
InitLog ==
  /\ dir \in {d \in Dirs : \A i \in 1..Len(d) : d[i].content = <<>>}
  /\ destExists = FALSE
  /\ archives = {}
  /\ logFile \in {[exists |-> FALSE, text |-> <<>>]}
                  \cup {[exists |-> TRUE, text |-> t] : t \in Logs}
  /\ clock = 0
  /\ faults = 0
  /\ edits = 0
  /\ nruns = 0
  /\ pc = [p \in Procs |-> "idle"]
  /\ loc = [p \in Procs |-> InitLoc]
  /\ prev = NoRun

\* the CHECK phase of a run over such a log: lines 111-123
NextLog == Start(1) \/ Readdir(1) \/ ReadLog(1)

SpecLog == InitLog /\ [][NextLog]_vars

\* ------------------------------------------------------------------ properties
Count(text, tok) == Cardinality({i \in 1..Len(text) : text[i] = tok})

EndsWith(t, s) == Len(s) <= Len(t) /\ SubSeq(t, Len(t) - Len(s) + 1, Len(t)) = s

\* the complete SUCCESS entries of a log text
CountSuccess(text) ==
  Cardinality({i \in 1..Len(text) :
                 /\ text[i] = SuccessLit
                 /\ i + 7 <= Len(text)
                 /\ text[i + 4] = HASHMARK
                 /\ text[i + 6].k = "sha"
                 /\ text[i + 7] = NL})

\* what was written to the log since run p started
Added(p) == SubSeq(logFile.text, Len(loc[p].log0.text) + 1, Len(logFile.text))

Clean(l) == ~l.faulted

ContentsInOrder(d) == Join([i \in 1..Len(d) |-> d[i].content])

\* C1: two runs in succession from a log with no recorded hash, the source
\* directory unchanged and nothing failing: the first run archives, the second
\* skips, and there is one archive more and one SUCCESS entry more than before.
C1_SecondRunSkips ==
  \A p \in Procs :
    ( /\ pc[p] = "done"
      /\ prev.valid
      /\ ~Includes(prev.log0.text, HASHMARK)
      /\ Clean(prev) /\ Clean(loc[p])
      /\ loc[p].dir0 = prev.dir0 )
    => /\ prev.branch = "ARCHIVE"
       /\ loc[p].branch = "SKIP"
       /\ Cardinality(archives) = Cardinality(prev.arch0) + 1
       /\ CountSuccess(logFile.text) = CountSuccess(prev.log0.text) + 1

\* C2: a run that took the SKIP branch changed neither the log, nor the archives,
\* nor the destination directory, and completed normally; the run after a SKIP,
\* over the same listing and reading the log, skips again.
C2_SkipHasNoSideEffects ==
  \A p \in Procs :
    /\ (pc[p] = "done" /\ loc[p].branch = "SKIP")
       => /\ logFile = loc[p].log0
          /\ archives = loc[p].arch0
          /\ destExists = loc[p].dest0
          /\ loc[p].outcome = "resolved"
          /\ loc[p].thrownAt = <<>>
    /\ ( /\ prev.valid /\ prev.branch = "SKIP"
         /\ loc[p].logRead = "ok"
         /\ loc[p].files = prev.files )
       => /\ loc[p].branch = "SKIP"
          /\ loc[p].log0 = prev.log0

C2_Witness ==
  \E p \in Procs :
    /\ pc[p] = "done" /\ loc[p].branch = "SKIP"
    /\ prev.valid /\ prev.branch = "SKIP"
    /\ loc[p].files = prev.files
    /\ loc[p].log0.exists /\ logFile = loc[p].log0
    /\ ~loc[p].dest0 /\ ~destExists

\* the line '<ISO timestamp>: FAILED: <message>' of the log grammar
FailedEntry(t, message) ==
  <<Tok("iso", t, <<>>), Lit(": FAILED: ")>> \o message \o <<NL>>

\* C3: a run whose archiver failed with message M appended '<timestamp>: FAILED: M',
\* no SUCCESS entry, and its archive file does not exist.
C3_ArchiverFailure ==
  \A p \in Procs :
    (pc[p] = "done" /\ loc[p].tarFailed /\ ~loc[p].appendFailed)
    => /\ \E t \in 0..clock : Added(p) = FailedEntry(t, loc[p].tarMessage)
       /\ CountSuccess(Added(p)) = 0
       /\ loc[p].backupFilePath \notin archives

\* the FAILED append of run p succeeded: line 94 threw
FailedAppended(p) ==
  loc[p].error # <<>> /\ Head(loc[p].error) = Msg("Failed to create backup, error = ")

OneFailedEntry(p) ==
  /\ Count(Added(p), FailedLit) = 1
  /\ \E t \in 0..clock : EndsWith(Added(p), FailedEntry(t, loc[p].cause))

C6_DeleteAllTriggersArchive ==
  \A p \in Procs :
    ( /\ prev.valid /\ prev.branch = "ARCHIVE" /\ Clean(prev)
      /\ prev.dir0 # <<>>
      /\ loc[p].dir0 = <<>>
      /\ loc[p].logRead = "ok" )
    => loc[p].branch = "ARCHIVE"

\* C7: with no log file, an empty one, one without any HASH: field, or a failed
\* read, getLastBackupHash answers null and raises nothing, and the run goes on
\* to archive.
C7_NoHashIsNull ==
  \A p \in Procs :
    ( /\ loc[p].logRead # "none"
      /\ \/ ~loc[p].log0.exists
         \/ loc[p].log0.text = <<>>
         \/ ~Includes(loc[p].log0.text, HASHMARK)
         \/ loc[p].logRead = "failed" )
    => /\ loc[p].lastChecksum = Null
       /\ loc[p].thrownAt = <<>>
       /\ loc[p].branch = "ARCHIVE"
       /\ pc[p] = "mkdir"

C7_Witness ==
  \E p \in Procs :
    /\ loc[p].logRead = "ok"
    /\ Includes(loc[p].log0.text, FailedLit)
    /\ ~Includes(loc[p].log0.text, HASHMARK)
    /\ loc[p].lastChecksum = Null
    /\ pc[p] = "mkdir"

\* the lines of a text, and those that bear a HASH: field
Lines(text) == Split(text, NL)
HashLines(text) == {i \in 1..Len(Lines(text)) : Includes(Lines(text)[i], HASHMARK)}
Max(S) == CHOOSE x \in S : \A y \in S : y <= x

\* what stands between the first HASH: of a line and its next HASH: or its end
HashField(line) ==
  LET first == CHOOSE i \in 1..Len(line) :
                 line[i] = HASHMARK /\ \A j \in 1..(i - 1) : line[j] # HASHMARK
      stops == {j \in (first + 1)..Len(line) : line[j] = HASHMARK} \cup {Len(line) + 1}
      next == CHOOSE j \in stops : \A k \in stops : j <= k
  IN Trim(SubSeq(line, first + 1, next - 1))

\* C8: from a log with several HASH-bearing lines, getLastBackupHash answers the
\* hash of the one closest to the end of the file.
C8_LastHashLineWins ==
  \A p \in Procs :
    (loc[p].logRead = "ok" /\ Cardinality(HashLines(loc[p].log0.text)) >= 2)
    => loc[p].lastChecksum
         = Some(HashField(Lines(loc[p].log0.text)[Max(HashLines(loc[p].log0.text))]))

C8_Witness ==
  \E p \in Procs :
    LET text == loc[p].log0.text
        last == Max(HashLines(text))
    IN /\ loc[p].logRead = "ok"
       /\ Cardinality(HashLines(text)) >= 2
       /\ last < Len(Lines(text))
       /\ Includes(Lines(text)[Len(Lines(text))], FailedLit)
       /\ \E i \in HashLines(text) : HashField(Lines(text)[i]) # HashField(Lines(text)[last])
       /\ loc[p].lastChecksum = Some(<<Sha(<<"b">>)>>)

\* C9: the log only grows: what it held before a step is a prefix of what it
\* holds after, and the file is never removed.
C9_LogAppendOnly ==
  [][IsPrefix(logFile.text, logFile'.text) /\ (logFile.exists => logFile'.exists)]_vars

C9_Witness ==
  \E p \in Procs :
    /\ pc[p] = "done"
    /\ loc[p].log0.text # <<>>
    /\ Len(logFile.text) > Len(loc[p].log0.text)
    /\ prev.valid /\ Len(loc[p].log0.text) > Len(prev.log0.text)

\* C10: the fingerprint of a SUCCESS entry is the digest of the file contents
\* concatenated in enumeration order, in whatever order the reads completed.
C10_ChecksumInEnumerationOrder ==
  \A p \in Procs :
    (pc[p] = "done" /\ loc[p].branch = "ARCHIVE" /\ loc[p].thrownAt = <<>>)
    => EndsWith(logFile.text,
                <<HASHMARK, SP, Sha(ContentsInOrder(loc[p].dir0)), NL>>)

C10_Witness ==
  \E p \in Procs :
    /\ pc[p] = "done" /\ loc[p].branch = "ARCHIVE" /\ loc[p].thrownAt = <<>>
    /\ loc[p].readOrder = <<2, 1>>
    /\ ContentsInOrder(loc[p].dir0) = <<"a", "b">>
    /\ EndsWith(logFile.text, <<Sha(<<"a", "b">>), NL>>)

\* ------------------------------------------------------------------ any listing
\* Entry names of more than one character, so that two listings with different
\* names can join to the same string; the CHECK phase over a log that holds
\* one SUCCESS entry, the listing changed between the runs.
WideNames == FileNames \cup {<<"a", "b">>}

Listings ==
  UNION {{d \in [1..n -> [name : WideNames, content : {<<>>}]] : HasDistinctNames(d)}
         : n \in 0..MaxFiles}

NameSet(files) == {files[i] : i \in 1..Len(files)}

InitNames ==
  /\ dir \in Listings
  /\ destExists = TRUE
  /\ archives = {BackupFilePath(DashedStamp)}
  /\ logFile \in {[exists |-> TRUE,
                   text |-> SuccessLog(DashedStamp, BackupFilePath(DashedStamp), <<Sha(str)>>)]
                  : str \in {<<"a">>, <<"a", "b">>}}
  /\ clock = 0
  /\ faults = 0
  /\ edits = 0
  /\ nruns = 0
  /\ pc = [p \in Procs |-> "idle"]
  /\ loc = [p \in Procs |-> InitLoc]
  /\ prev = NoRun

\* between two runs files are added, removed or renamed
ChangeListing ==
  /\ \A q \in Procs : pc[q] \in Finished
  /\ nruns > 0
  /\ edits < MaxEdits
  /\ edits' = edits + 1
  /\ \E d \in Listings : NameSet(readdir(d)) # NameSet(readdir(dir)) /\ dir' = d
  /\ UNCHANGED <<destExists, archives, logFile, clock, faults, nruns, pc, loc, prev>>

NextNames == Start(1) \/ Readdir(1) \/ ReadLog(1) \/ ChangeListing

SpecNames == InitNames /\ [][NextNames]_vars

\* C11: when a run skipped for a listing, the run over a listing with another
\* set of entry names, the log being the same, does not skip.
C11_ListingChangeDetected ==
  \A p \in Procs :
    ( /\ prev.valid /\ prev.branch = "SKIP"
      /\ loc[p].logRead = "ok"
      /\ loc[p].log0 = prev.log0
      /\ NameSet(loc[p].files) # NameSet(prev.files) )
    => loc[p].branch # "SKIP"

\* C12: a run skips exactly when the digest of its joined entry names equals
\* the value getLastBackupHash returned; a skip ends the run with nothing
\* touched; otherwise the destination directory is ensured and, once it is,
\* createArchive is called.
C12_SkipIffSameChecksum ==
  \A p \in Procs :
    LET l == loc[p]
        fingerprint == <<Sha(Join(l.files))>>
    IN l.branch # "NONE" =>
         /\ l.branch = "SKIP" <=> l.lastChecksum = Some(fingerprint)
         /\ l.branch = "SKIP" =>
              /\ pc[p] = "done"
              /\ l.timestamp = NoTok
              /\ destExists = l.dest0 /\ archives = l.arch0 /\ logFile = l.log0
         /\ l.branch = "ARCHIVE" =>
              \/ pc[p] = "mkdir"
              \/ l.cause = MkdirError /\ l.timestamp = NoTok
              \/ destExists /\ (pc[p] = "createArchive" \/ l.timestamp # NoTok)

C12_Witness ==
  /\ prev.valid /\ prev.branch = "ARCHIVE" /\ prev.entries # <<>>
  /\ pc[1] = "done" /\ loc[1].branch = "SKIP"
  /\ loc[1].files # <<>>
  /\ loc[1].lastChecksum = Some(<<Sha(Join(loc[1].files))>>)

\* a line of the SUCCESS-entry grammar: <timestamp>: SUCCESS: <message>, HASH: <fingerprint>
IsSuccessEntry(line) ==
  /\ Len(line) = 8
  /\ line[1].k \in {"iso", "dashed"}
  /\ line[2] = SuccessLit
  /\ line[3].k = "path"
  /\ line[6] = HASHMARK
  /\ line[8].k = "sha"

\* C13: getLastBackupHash returns nothing or the fingerprint of the most recent
\* SUCCESS entry, whatever other lines holding 'HASH:' come after that entry.
C13_OnlySuccessEntriesCount ==
  \A p \in Procs :
    loc[p].logRead = "ok" =>
      LET lines == Split(loc[p].log0.text, NL)
          S == {i \in 1..Len(lines) : IsSuccessEntry(lines[i])}
      IN \/ loc[p].lastChecksum = Null
         \/ /\ S # {}
            /\ loc[p].lastChecksum = Some(<<lines[Max(S)][8]>>)

\* ------------------------------------------------------------------ overlapping runs
\* runBackup is an exported async function and takes no lock: a second call may
\* be made while the first one is between two of its awaits.
StartOverlapping(p) ==
  /\ pc[p] \in Finished
  /\ \E q \in Procs : pc[q] \notin Finished
  /\ nruns < MaxRuns
  /\ nruns' = nruns + 1
  /\ prev' = IF pc[p] = "idle" THEN prev ELSE Summary(loc[p])
  /\ Goto(p, "readdir")
  /\ Set(p, [InitLoc EXCEPT !.dir0 = dir, !.log0 = logFile, !.arch0 = archives,
                            !.dest0 = destExists])
  /\ UNCHANGED <<dir, destExists, archives, logFile, clock, faults, edits>>

NextOverlap == \E p \in Procs : Run(p) \/ StartOverlapping(p)

SpecOverlap == Init /\ [][NextOverlap]_vars

\* C14: of two runs in flight together over the same directory state and the
\* same log, at most one decides to archive.
C14_OneArchiveDecision ==
  \A p, q \in Procs :
    ( /\ p # q
      /\ pc[p] \notin Finished /\ pc[q] \notin Finished
      /\ loc[p].dir0 = loc[q].dir0
      /\ loc[p].log0 = loc[q].log0 )
    => ~(loc[p].branch = "ARCHIVE" /\ loc[q].branch = "ARCHIVE")

\* the places of a log text where a timestamp stands
Stamps(text) == {i \in 1..Len(text) : text[i].k \in {"iso", "dashed"}}

\* C15: runs that do not overlap, under a clock that does not go back, leave
\* a log whose timestamps never decrease from its first line to its last.
C15_TimestampsNonDecreasing ==
  \A i, j \in Stamps(logFile.text) : i < j => logFile.text[i].n <= logFile.text[j].n

C15_Witness ==
  /\ nruns = 2 /\ pc[1] = "done"
  /\ CountSuccess(logFile.text) = 1
  /\ Count(logFile.text, FailedLit) = 1
  /\ \E i, j \in Stamps(logFile.text) :
       /\ i < j
       /\ logFile.text[i].k = "dashed" /\ logFile.text[i].n = 0
       /\ logFile.text[j].k = "iso" /\ logFile.text[j].n = 1

\* C16: the archive path a run derives is the path of no archive that was
\* there when the run started: no run writes over an earlier run's archive.
C16_ArchivePathsUnique ==
  \A p \in Procs :
    loc[p].backupFilePath # NoTok => loc[p].backupFilePath \notin loc[p].arch0

\* the SUCCESS entry of run p is in the log
SuccessAppended(p) == pc[p] # "idle" /\ CountSuccess(Added(p)) > 0

\* C17: within a run the destination directory is there before createArchive
\* starts tar, tar has made the archive before a content read is issued, every
\* content read has answered before the SUCCESS entry is appended, and the run
\* returns with its log entry written.
C17_StepsInOrder ==
  \A p \in Procs :
    LET l == loc[p]
    IN /\ l.timestamp # NoTok => destExists
       /\ (pc[p] \in {"readdir2", "reads", "appendSuccess"}
           \/ l.files2 # <<>> \/ l.readOrder # <<>>)
          => (~l.tarFailed /\ l.backupFilePath \in archives)
       /\ (pc[p] = "appendSuccess" \/ SuccessAppended(p))
          => /\ Len(l.readOrder) = Len(l.files2)
             /\ \A i \in 1..Len(l.files2) : l.fileContents[i].done
       /\ (pc[p] = "done" /\ l.timestamp # NoTok /\ ~l.appendFailed)
          => /\ Len(l.entries) = 1
             /\ EndsWith(logFile.text, l.entries[1])
             /\ l.outcome = "resolved"

C17_Witness ==
  /\ pc[1] = "done" /\ Clean(loc[1])
  /\ ~loc[1].dest0 /\ destExists
  /\ loc[1].backupFilePath \in archives
  /\ Len(loc[1].files2) = 2 /\ loc[1].readOrder = <<2, 1>>
  /\ SuccessAppended(1)
  /\ EndsWith(logFile.text, loc[1].entries[1])

\* the places of a log text where a complete SUCCESS entry starts
SuccessEntries(text) ==
  {i \in 2..Len(text) :
     /\ text[i] = SuccessLit
     /\ i + 7 <= Len(text)
     /\ text[i + 4] = HASHMARK
     /\ text[i + 6].k = "sha"
     /\ text[i + 7] = NL}

\* C18: every SUCCESS entry of the log names an archive that was created, under
\* the timestamp of the entry; the entry a run appended follows a tar and
\* content reads that all succeeded in that run, and holds that run's archive
\* path and the digest of the contents read in that run.
C18_SuccessEntriesAreBacked ==
  /\ \A i \in SuccessEntries(logFile.text) :
       /\ logFile.text[i + 1] \in archives
       /\ logFile.text[i + 1].n = logFile.text[i - 1].n
  /\ \A p \in Procs :
       (pc[p] # "idle" /\ SuccessEntries(Added(p)) # {}) =>
         LET l == loc[p]
         IN /\ ~l.tarFailed
            /\ l.backupFilePath \in archives
            /\ Len(l.readOrder) = Len(l.files2)
            /\ l.thrownAt = <<>>
            /\ Added(p) = <<l.timestamp, SuccessLit, l.backupFilePath, Lit(","), SP,
                            HASHMARK, SP, Sha(ContentsInOrder(l.dir0)), NL>>

C18_Witness ==
  /\ nruns = 2 /\ pc[1] = "done"
  /\ Cardinality(SuccessEntries(logFile.text)) = 2
  /\ Cardinality(archives) = 2
  /\ loc[1].files2 # <<>>
  /\ SuccessEntries(Added(1)) # {}

\* the entries of a text: its complete SUCCESS entries and its FAILED entries
CountEntries(text) == CountSuccess(text) + Count(text, FailedLit)

\* C19: a run adds at most one entry to the log: none when it skips or fails
\* before createArchive is called, exactly one, SUCCESS or FAILED, when
\* createArchive is called and no append fails; when the SUCCESS append fails
\* the FAILED append is made.
C19_AtMostOneEntryPerRun ==
  \A p \in Procs :
    LET l == loc[p]
        a == Added(p)
    IN /\ pc[p] # "idle" => CountEntries(a) <= 1
       /\ pc[p] = "done" =>
            /\ (l.branch = "SKIP" \/ l.timestamp = NoTok) => logFile = l.log0
            /\ (l.timestamp # NoTok /\ ~l.appendFailed)
               => /\ CountEntries(a) = 1
                  /\ l.entries = <<a>>
                  /\ a[2] \in {SuccessLit, FailedLit}
                  /\ a[2] = SuccessLit <=> l.thrownAt = <<>>
            /\ (l.appendFailed /\ l.thrownAt[1] = "createArchive.try"
                /\ l.cause = AppendError)
               => /\ l.thrownAt = <<"createArchive.try", "createArchive.catch">>
                  /\ CountSuccess(a) = 0
                  /\ \/ l.entries = <<>> /\ l.error = AppendError
                     \/ /\ Len(l.entries) = 1
                        /\ \E t \in 0..clock :
                             /\ l.entries[1] = FailedEntry(t, AppendError)
                             /\ EndsWith(a, l.entries[1])

C19_Witness ==
  /\ pc[1] = "done"
  /\ loc[1].appendFailed /\ loc[1].partial
  /\ loc[1].cause = AppendError
  /\ loc[1].thrownAt = <<"createArchive.try", "createArchive.catch">>
  /\ Len(loc[1].entries) = 1
  /\ Count(Added(1), FailedLit) = 1
  /\ Count(Added(1), SuccessLit) = 0

====
